---- MODULE Spec2Model ----
(***************************************************************************)
(* The four-perimeter permission gates of the financial-advisor agent:     *)
(* src/main.py (tiered free/premium variant) and src/project/main.py       *)
(* (certification variant).  Every gate forwards checks to the PDP         *)
(* (permit.check) and branches on the answers.                             *)
(***************************************************************************)
EXTENDS Integers, Sequences, FiniteSets, TLC

(***************************************************************************)
(* Bounds of the model.                                                    *)
(***************************************************************************)
\* how often the PDP's policy state may change in one behaviour
MaxPolicyChanges == 1
\* cap on the length of response.risk_warnings (it grows with every call)
MaxWarnings == 4
\* cap on the number of tool calls the agent makes in one run
MaxToolCalls == 3

(***************************************************************************)
(* State.                                                                  *)
(***************************************************************************)
VARIABLES
    program,    \* which script runs: "main" (src/main.py) or "project" (src/project/main.py)
    policy,     \* the PDP's policy state: the checks it allows the user
    changes,    \* how often the policy state has changed
    fresh,      \* no policy change since the last gate invocation
    result,     \* the last gate invocation: gate, arguments, checks issued, outcome
    draft,      \* the Draft Response object validate_financial_response mutates
    turn,       \* the agent run in progress: its state and the gates it invoked
    provisioning \* the run of create_permit_config: its status and the calls it issued

vars == <<program, policy, changes, fresh, result, draft, turn, provisioning>>

(***************************************************************************)
(* Text.  A str is a sequence of one-character strings, so that len(),     *)
(* lower() and the substring test `kw in text` are computed, not assumed.  *)
(***************************************************************************)
UpperCase == <<"A","B","C","D","E","F","G","H","I","J","K","L","M","N","O","P","Q","R","S","T","U","V","W","X","Y","Z">>
LowerCase == <<"a","b","c","d","e","f","g","h","i","j","k","l","m","n","o","p","q","r","s","t","u","v","w","x","y","z">>

\* str.lower() on one character
LowerChar(c) ==
    IF \E i \in 1..Len(UpperCase) : UpperCase[i] = c
    THEN LowerCase[CHOOSE i \in 1..Len(UpperCase) : UpperCase[i] = c]
    ELSE c

\* str.lower()
lower(text) == [i \in 1..Len(text) |-> LowerChar(text[i])]

\* `kw in text` on str: kw occurs as a contiguous substring
Contains(kw, text) ==
    \E i \in 1..(Len(text) - Len(kw) + 1) : SubSeq(text, i, i + Len(kw) - 1) = kw

\* any(keyword in text for keyword in keywords)
AnyIn(keywords, text) ==
    \E i \in 1..Len(keywords) : Contains(keywords[i], text)

\* `x in list`
InList(x, list) == \E i \in 1..Len(list) : list[i] = x

\* [d for d in list if d not in other]
RECURSIVE NotIn(_, _)
NotIn(list, other) ==
    IF list = <<>> THEN <<>>
    ELSE IF InList(Head(list), other) THEN NotIn(Tail(list), other)
    ELSE <<Head(list)>> \o NotIn(Tail(list), other)

\* Optional[...]: None is the empty sequence, a value v is <<v>>
None == <<>>
Some(v) == <<v>>

\* Python's `not x` on an Optional[bool]: None and False are falsy
PyNot(x) == x = None \/ x = Some(FALSE)

\* Python's truthiness of an Optional[float]: None and 0 are falsy
PyTruthy(x) == x # None /\ x[1] # 0

(***************************************************************************)
(* Keyword lists of src/project/main.py.                                   *)
(***************************************************************************)
expert_keywords ==
    << <<"d","e","r","i","v","a","t","i","v","e","s">>,
       <<"h","e","d","g","e">>,
       <<"i","n","s","t","i","t","u","t","i","o","n","a","l">>,
       <<"m","e","r","g","e","r">>,
       <<"a","c","q","u","i","s","i","t","i","o","n">>,
       <<"s","t","r","u","c","t","u","r","e","d"," ","p","r","o","d","u","c","t","s">>,
       <<"f","o","r","e","i","g","n"," ","e","x","c","h","a","n","g","e">>,
       <<"f","o","r","e","x">>,
       <<"o","p","t","i","o","n","s"," ","t","r","a","d","i","n","g">> >>

professional_keywords ==
    << <<"p","o","r","t","f","o","l","i","o">>,
       <<"t","a","x"," ","s","t","r","a","t","e","g","y">>,
       <<"e","s","t","a","t","e"," ","p","l","a","n","n","i","n","g">>,
       <<"r","e","t","i","r","e","m","e","n","t">>,
       <<"i","n","v","e","s","t","m","e","n","t"," ","s","t","r","a","t","e","g","y">>,
       <<"r","i","s","k"," ","a","s","s","e","s","s","m","e","n","t">>,
       <<"a","s","s","e","t"," ","a","l","l","o","c","a","t","i","o","n">> >>

risk_required_keywords ==
    << <<"i","n","v","e","s","t">>,
       <<"p","o","r","t","f","o","l","i","o">>,
       <<"a","l","l","o","c","a","t","i","o","n">>,
       <<"s","t","r","a","t","e","g","y">>,
       <<"r","e","t","u","r","n">>,
       <<"g","r","o","w","t","h">>,
       <<"i","n","c","o","m","e">>,
       <<"r","i","s","k">> >>

risk_triggers ==
    << <<"i","n","v","e","s","t">>,
       <<"r","i","s","k">>,
       <<"r","e","t","u","r","n">>,
       <<"g","r","o","w","t","h">>,
       <<"p","o","r","t","f","o","l","i","o">>,
       <<"s","t","o","c","k">>,
       <<"b","o","n","d">>,
       <<"f","u","n","d">>,
       <<"m","a","r","k","e","t">>,
       <<"t","r","a","d","e">> >>

investment_keywords ==
    << <<"i","n","v","e","s","t">>,
       <<"s","t","o","c","k">>,
       <<"b","o","n","d">>,
       <<"p","o","r","t","f","o","l","i","o">>,
       <<"f","u","n","d">> >>

retirement_keywords ==
    << <<"r","e","t","i","r","e">>,
       <<"p","e","n","s","i","o","n">>,
       <<"4","0","1","k">>,
       <<"i","r","a">> >>

tax_keywords ==
    << <<"t","a","x">>,
       <<"d","e","d","u","c","t","i","o","n">>,
       <<"w","r","i","t","e","-","o","f","f">>,
       <<"e","x","e","m","p","t","i","o","n">> >>

estate_keywords ==
    << <<"e","s","t","a","t","e">>,
       <<"w","i","l","l">>,
       <<"t","r","u","s","t">>,
       <<"i","n","h","e","r","i","t","a","n","c","e">> >>

general_keywords ==
    << <<"a","d","v","i","c","e">>,
       <<"r","e","c","o","m","m","e","n","d">>,
       <<"s","h","o","u","l","d"," ","i">>,
       <<"h","o","w"," ","t","o">> >>

kw_stock == <<"s","t","o","c","k">>
kw_equity == <<"e","q","u","i","t","y">>
kw_bond == <<"b","o","n","d">>
kw_fixed_income == <<"f","i","x","e","d"," ","i","n","c","o","m","e">>
kw_international == <<"i","n","t","e","r","n","a","t","i","o","n","a","l">>
kw_foreign == <<"f","o","r","e","i","g","n">>
kw_small == <<"s","m","a","l","l">>
kw_cap == <<"c","a","p">>
kw_company == <<"c","o","m","p","a","n","y">>
kw_high == <<"h","i","g","h">>
kw_yield == <<"y","i","e","l","d">>

(***************************************************************************)
(* Helper functions of src/project/main.py.  A FinancialQuery is a record  *)
(* [question, portfolio_value]; context, risk_profile and                  *)
(* investment_horizon are read by no gate and no helper.                   *)
(***************************************************************************)
\* $1M+ portfolios need expert, $100k+ portfolios need professional
ExpertPortfolioValue == 1000000
ProfessionalPortfolioValue == 100000

\* mutant: the thresholds are compared with > instead of >=
get_required_certification_strict(query) ==
    LET question == lower(query.question)
    IN  IF AnyIn(expert_keywords, question) THEN "expert"
        ELSE IF AnyIn(professional_keywords, question) THEN "professional"
        ELSE IF PyTruthy(query.portfolio_value)
                /\ query.portfolio_value[1] > ExpertPortfolioValue
             THEN "expert"
        ELSE IF PyTruthy(query.portfolio_value)
                /\ query.portfolio_value[1] > ProfessionalPortfolioValue
             THEN "professional"
        ELSE "general"

get_required_certification(query) ==
    LET question == lower(query.question)
    IN  IF AnyIn(expert_keywords, question) THEN "expert"
        ELSE IF AnyIn(professional_keywords, question) THEN "professional"
        ELSE IF PyTruthy(query.portfolio_value)
                /\ query.portfolio_value[1] >= ExpertPortfolioValue
             THEN "expert"
        ELSE IF PyTruthy(query.portfolio_value)
                /\ query.portfolio_value[1] >= ProfessionalPortfolioValue
             THEN "professional"
        ELSE "general"

needs_risk_profile(query) ==
    LET question == lower(query.question)
        requires_risk == AnyIn(risk_required_keywords, question)
    IN  IF query.portfolio_value # None THEN TRUE ELSE requires_risk

\* the categories dict, in insertion order; the first matching category wins
categories ==
    << [category |-> "investment", keywords |-> investment_keywords],
       [category |-> "retirement", keywords |-> retirement_keywords],
       [category |-> "tax",        keywords |-> tax_keywords],
       [category |-> "estate",     keywords |-> estate_keywords],
       [category |-> "general",    keywords |-> general_keywords] >>

categorize_query(query) ==
    LET question == lower(query.question)
        hits == {i \in 1..Len(categories) : AnyIn(categories[i].keywords, question)}
    IN  IF hits = {} THEN "general"
        ELSE categories[CHOOSE i \in hits : \A j \in hits : i <= j].category

category_warnings(category) ==
    CASE category = "investment" ->
            << "Past performance is not indicative of future results",
               "Investment involves risk of loss" >>
      [] category = "retirement" ->
            << "Consult a tax professional for specific retirement advice",
               "Early withdrawal penalties may apply" >>
      [] category = "tax" ->
            << "Tax laws are subject to change",
               "Consult a tax professional for your specific situation" >>
      [] category = "estate" ->
            << "Estate laws vary by jurisdiction",
               "Consult a legal professional for estate planning" >>
      [] OTHER -> <<>>

get_regulatory_warnings(query) ==
    LET category == categorize_query(query)
        base == << "This information is for educational purposes only and not financial advice" >>
        risk == IF needs_risk_profile(query)
                THEN << "A complete risk assessment is required for personalized investment advice" >>
                ELSE <<>>
    IN  base \o category_warnings(category) \o risk

base_disclaimers ==
    << "Past performance is not indicative of future results",
       "Financial advice may not be suitable for everyone" >>

level_specific_disclaimers(certification_level) ==
    CASE certification_level = "general" ->
            << "This is general information only",
               "Consult a professional for specific advice" >>
      [] certification_level = "professional" ->
            << "Advice is based on provided information",
               "Additional consultation may be required",
               "Services provided under professional certification" >>
      [] certification_level = "expert" ->
            << "Complex financial products carry significant risks",
               "Services provided under expert certification",
               "Regular review and updates recommended" >>
      [] OTHER -> <<>>

get_required_disclaimers(certification_level) ==
    base_disclaimers \o level_specific_disclaimers(certification_level)

needs_risk_warnings(response_text) ==
    AnyIn(risk_triggers, lower(response_text))

StockWarning == "Stock investments can result in significant loss of principal"
BondWarning == "Bond values fluctuate with interest rates and credit quality"
InternationalWarning == "International investments carry additional risks including currency fluctuations"
SmallCapWarning == "Small cap investments may have limited liquidity and higher volatility"
HighYieldWarning == "High yield investments carry increased default risk"
DiversificationWarning == "All investments carry risk of loss. Diversification does not guarantee against loss."

get_required_risk_warnings(response_text) ==
    LET text == lower(response_text)
        w1 == IF Contains(kw_stock, text) \/ Contains(kw_equity, text)
              THEN <<StockWarning>> ELSE <<>>
        w2 == IF Contains(kw_bond, text) \/ Contains(kw_fixed_income, text)
              THEN <<BondWarning>> ELSE <<>>
        w3 == IF Contains(kw_international, text) \/ Contains(kw_foreign, text)
              THEN <<InternationalWarning>> ELSE <<>>
        w4 == IF Contains(kw_small, text)
                 /\ (Contains(kw_cap, text) \/ Contains(kw_company, text))
              THEN <<SmallCapWarning>> ELSE <<>>
        w5 == IF Contains(kw_high, text) /\ Contains(kw_yield, text)
              THEN <<HighYieldWarning>> ELSE <<>>
        warnings == w1 \o w2 \o w3 \o w4 \o w5
    IN  IF warnings # <<>> THEN warnings \o <<DiversificationWarning>> ELSE warnings

(***************************************************************************)
(* The PDP.  A check is named by its action and resource descriptor (the   *)
(* subject is always ctx.deps.user_id; a resource given as a bare string   *)
(* is the resource type).  pdp = [policy, down]: the checks the policy     *)
(* state allows, and the checks whose call fails with PermitApiError.      *)
(***************************************************************************)
CheckKey(action, resource) == [action |-> action, resource |-> resource]

\* await ctx.deps.permit.check(user, action, resource)
Answer(pdp, key) ==
    IF key \in pdp.down THEN "error"
    ELSE IF key \in pdp.policy THEN "allow"
    ELSE "deny"

\* one entry of the log of checks a gate invocation issued
Issued(pdp, key) == [key |-> key, answer |-> Answer(pdp, key)]

\* the checks of `keys` issued in order, stopping at the first PermitApiError
RECURSIVE IssueAll(_, _)
IssueAll(pdp, keys) ==
    IF keys = <<>> THEN <<>>
    ELSE IF Answer(pdp, Head(keys)) = "error" THEN <<Issued(pdp, Head(keys))>>
    ELSE <<Issued(pdp, Head(keys))>> \o IssueAll(pdp, Tail(keys))

NoValue == [none |-> TRUE]
NoError == [none |-> TRUE]

\* the gate returned `value` after issuing `calls`
Return(calls, value) ==
    [kind |-> "return", calls |-> calls, value |-> value, error |-> NoError]

\* except PermitApiError as e: raise SecurityError(f"{prefix}{str(e)}")
Raise(calls, prefix) ==
    [kind |-> "raise", calls |-> calls, value |-> NoValue,
     error |-> [type |-> "SecurityError", prefix |-> prefix, cause |-> "PermitApiError"]]

(***************************************************************************)
(* The gates of src/main.py.                                               *)
(***************************************************************************)
SubmitKey(query) ==
    CheckKey("submit", [type |-> "financial_queries",
                        attributes |-> [length |-> Len(query.question)]])
AnalyzePortfolioKey == CheckKey("analyze_portfolio", [type |-> "financial_analysis"])
ReceiveKey(response) ==
    CheckKey("receive", [type |-> "financial_advice",
                         attributes |-> [length |-> Len(response.answer)]])
AccessPremiumKey == CheckKey("access_premium", [type |-> "financial_advice"])
AccessPremiumDocsKey == CheckKey("access_premium_docs", [type |-> "documentation"])
ApiKey(endpoint) ==
    CheckKey("access", [type |-> "api", attributes |-> [endpoint |-> endpoint]])

\* mutant: the portfolio check is guarded by `if query.portfolio_value:`
validate_financial_query_truthy(query, pdp) ==
    LET c1 == Issued(pdp, SubmitKey(query))
        c2 == Issued(pdp, AnalyzePortfolioKey)
        prefix == "Permission check failed: "
        warn(p) == IF PyNot(p) THEN <<"Portfolio analysis requires premium">> ELSE <<>>
    IN  IF c1.answer = "error" THEN Raise(<<c1>>, prefix)
        ELSE IF PyTruthy(query.portfolio_value)
        THEN IF c2.answer = "error" THEN Raise(<<c1, c2>>, prefix)
             ELSE Return(<<c1, c2>>,
                         [permitted |-> (c1.answer = "allow") /\ (c2.answer = "allow"),
                          warnings |-> warn(Some(c2.answer = "allow"))])
        ELSE Return(<<c1>>, [permitted |-> (c1.answer = "allow"), warnings |-> warn(None)])

\* mutant: the warning is attached `if portfolio_permitted`, the `not` lost
validate_financial_query_warn(query, pdp) ==
    LET c1 == Issued(pdp, SubmitKey(query))
        c2 == Issued(pdp, AnalyzePortfolioKey)
        prefix == "Permission check failed: "
        warn(p) == IF ~PyNot(p) THEN <<"Portfolio analysis requires premium">> ELSE <<>>
    IN  IF c1.answer = "error" THEN Raise(<<c1>>, prefix)
        ELSE IF query.portfolio_value # None
        THEN IF c2.answer = "error" THEN Raise(<<c1, c2>>, prefix)
             ELSE Return(<<c1, c2>>,
                         [permitted |-> (c1.answer = "allow") /\ (c2.answer = "allow"),
                          warnings |-> warn(Some(c2.answer = "allow"))])
        ELSE Return(<<c1>>, [permitted |-> (c1.answer = "allow"), warnings |-> warn(None)])

validate_financial_query(query, pdp) ==
    LET c1 == Issued(pdp, SubmitKey(query))
        c2 == Issued(pdp, AnalyzePortfolioKey)
        prefix == "Permission check failed: "
    IN  IF c1.answer = "error" THEN Raise(<<c1>>, prefix)
        ELSE IF query.portfolio_value # None
        THEN IF c2.answer = "error" THEN Raise(<<c1, c2>>, prefix)
             ELSE LET portfolio_permitted == Some(c2.answer = "allow")
                      permitted == (c1.answer = "allow") /\ portfolio_permitted[1]
                  IN  Return(<<c1, c2>>,
                             [permitted |-> permitted,
                              warnings |-> IF PyNot(portfolio_permitted)
                                           THEN <<"Portfolio analysis requires premium">>
                                           ELSE <<>>])
        ELSE LET portfolio_permitted == None
             IN  Return(<<c1>>,
                        [permitted |-> (c1.answer = "allow"),
                         warnings |-> IF PyNot(portfolio_permitted)
                                      THEN <<"Portfolio analysis requires premium">>
                                      ELSE <<>>])

validate_financial_advice(response, pdp) ==
    LET c1 == Issued(pdp, ReceiveKey(response))
        c2 == Issued(pdp, AccessPremiumKey)
        prefix == "Permission check failed: "
    IN  IF c1.answer = "error" THEN Raise(<<c1>>, prefix)
        ELSE IF response.used_premium_features
        THEN IF c2.answer = "error" THEN Raise(<<c1, c2>>, prefix)
             ELSE LET premium_permitted == Some(c2.answer = "allow")
                      permitted == (c1.answer = "allow") /\ premium_permitted[1]
                  IN  Return(<<c1, c2>>,
                             [permitted |-> permitted,
                              warnings |-> IF PyNot(premium_permitted)
                                           THEN <<"Premium features not available">>
                                           ELSE <<>>])
        ELSE LET premium_permitted == None
             IN  Return(<<c1>>,
                        [permitted |-> (c1.answer = "allow"),
                         warnings |-> IF PyNot(premium_permitted)
                                      THEN <<"Premium features not available">>
                                      ELSE <<>>])

basic_docs == << "general_advice", "market_basics" >>
premium_docs == << "advanced_strategies", "tax_planning", "portfolio_optimization" >>

\* mutant: the tier test is inverted (`if not premium_permitted`)
access_financial_knowledge_inverted(query, pdp) ==
    LET c1 == Issued(pdp, AccessPremiumDocsKey)
    IN  IF c1.answer = "error"
        THEN Raise(<<c1>>, "Documentation access check failed: ")
        ELSE IF c1.answer # "allow"
        THEN Return(<<c1>>, basic_docs \o premium_docs)
        ELSE Return(<<c1>>, basic_docs)

access_financial_knowledge(query, pdp) ==
    LET c1 == Issued(pdp, AccessPremiumDocsKey)
    IN  IF c1.answer = "error"
        THEN Raise(<<c1>>, "Documentation access check failed: ")
        ELSE IF c1.answer = "allow"
        THEN Return(<<c1>>, basic_docs \o premium_docs)
        ELSE Return(<<c1>>, basic_docs)

\* mutant: any(api_permissions.values()) in place of all(...)
validate_market_data_access_any(context, pdp) ==
    LET calls == IssueAll(pdp, << ApiKey("market_data"), ApiKey("portfolio_analysis") >>)
    IN  IF calls[Len(calls)].answer = "error"
        THEN Raise(calls, "API permission check failed: ")
        ELSE Return(calls, \E i \in 1..Len(calls) : calls[i].answer = "allow")

validate_market_data_access(context, pdp) ==
    LET calls == IssueAll(pdp, << ApiKey("market_data"), ApiKey("portfolio_analysis") >>)
    IN  IF calls[Len(calls)].answer = "error"
        THEN Raise(calls, "API permission check failed: ")
        ELSE \* all(api_permissions.values())
             Return(calls, \A i \in 1..Len(calls) : calls[i].answer = "allow")

(***************************************************************************)
(* The gates of src/project/main.py.  A FinancialResponse is a record      *)
(* [answer, compliance_notes, certification_level, risk_warnings].         *)
(***************************************************************************)
CertificationKey(level) ==
    CheckKey("provide_advice", [type |-> "certification", level |-> level])
RegulatoryKey(category) ==
    CheckKey("regulatory_compliance", [type |-> "advice_type", category |-> category])
ProfessionalDocsKey == CheckKey("access_professional_docs", [type |-> "documentation"])
ExpertDocsKey == CheckKey("access_expert_docs", [type |-> "documentation"])
ActionKey(verb, action) ==
    CheckKey(verb, [type |-> "financial_action", action |-> action])
ComplianceKey(certification) ==
    CheckKey("compliance_validation", [type |-> "response", certification |-> certification])

project_validate_financial_query(query, pdp) ==
    LET c1 == Issued(pdp, CertificationKey(get_required_certification(query)))
        c2 == Issued(pdp, RegulatoryKey(categorize_query(query)))
        prefix == "Advice permission check failed: "
    IN  IF c1.answer = "error" THEN Raise(<<c1>>, prefix)
        ELSE IF c2.answer = "error" THEN Raise(<<c1, c2>>, prefix)
        ELSE Return(<<c1, c2>>,
                    [permitted |-> (c1.answer = "allow") /\ (c2.answer = "allow"),
                     certification_level |-> get_required_certification(query),
                     warnings |-> get_regulatory_warnings(query)])

general_docs == << "general_education", "basic_principles" >>
professional_docs ==
    << "professional_guidelines", "regulatory_frameworks", "investment_strategies" >>
expert_docs ==
    << "advanced_analysis", "specialized_strategies", "institutional_research" >>

\* mutant: the expert tier is only added inside the professional tier
project_access_financial_knowledge_nested(query, pdp) ==
    LET c1 == Issued(pdp, ProfessionalDocsKey)
        c2 == Issued(pdp, ExpertDocsKey)
        prefix == "Documentation access check failed: "
        docs1 == IF c1.answer = "allow" THEN general_docs \o professional_docs
                 ELSE general_docs
        docs2 == IF c1.answer = "allow" /\ c2.answer = "allow"
                 THEN docs1 \o expert_docs ELSE docs1
    IN  IF c1.answer = "error" THEN Raise(<<c1>>, prefix)
        ELSE IF c2.answer = "error" THEN Raise(<<c1, c2>>, prefix)
        ELSE Return(<<c1, c2>>, docs2)

project_access_financial_knowledge(query, pdp) ==
    LET c1 == Issued(pdp, ProfessionalDocsKey)
        c2 == Issued(pdp, ExpertDocsKey)
        prefix == "Documentation access check failed: "
        docs1 == IF c1.answer = "allow" THEN general_docs \o professional_docs
                 ELSE general_docs
        docs2 == IF c2.answer = "allow" THEN docs1 \o expert_docs ELSE docs1
    IN  IF c1.answer = "error" THEN Raise(<<c1>>, prefix)
        ELSE IF c2.answer = "error" THEN Raise(<<c1, c2>>, prefix)
        ELSE Return(<<c1, c2>>, docs2)

\* the keys of the action_permissions dict, in the order its values are awaited
action_permissions_keys ==
    << "basic_advice", "portfolio_analysis", "specific_recommendations" >>

\* the check whose answer is stored under each key of action_permissions
action_permissions_check(action) ==
    CASE action = "basic_advice" -> ActionKey("provide", "basic_advice")
      [] action = "portfolio_analysis" -> ActionKey("analyze", "portfolio_analysis")
      [] action = "specific_recommendations" ->
            ActionKey("recommend", "specific_recommendations")

\* mutant: `except PermitApiError: return False`, the error taken for a denial
check_action_permissions_swallow(action, pdp) ==
    LET calls == IssueAll(pdp, [i \in 1..Len(action_permissions_keys) |->
                                   action_permissions_check(action_permissions_keys[i])])
    IN  IF calls[Len(calls)].answer = "error" THEN Return(calls, FALSE)
        ELSE IF \E i \in 1..Len(action_permissions_keys) :
                    action_permissions_keys[i] = action
        THEN Return(calls,
                    calls[CHOOSE i \in 1..Len(action_permissions_keys) :
                              action_permissions_keys[i] = action].answer = "allow")
        ELSE Return(calls, FALSE)

\* mutant: the decision of the previous invocation for the same action is
\* kept and returned again
check_action_permissions_cached(action, pdp) ==
    LET calls == IssueAll(pdp, [i \in 1..Len(action_permissions_keys) |->
                                   action_permissions_check(action_permissions_keys[i])])
    IN  IF /\ result.gate = "check_action_permissions"
           /\ result.args = action
           /\ result.out.kind = "return"
        THEN result.out
        ELSE IF calls[Len(calls)].answer = "error"
        THEN Raise(calls, "Action permission check failed: ")
        ELSE IF \E i \in 1..Len(action_permissions_keys) :
                    action_permissions_keys[i] = action
        THEN Return(calls,
                    calls[CHOOSE i \in 1..Len(action_permissions_keys) :
                              action_permissions_keys[i] = action].answer = "allow")
        ELSE Return(calls, FALSE)

check_action_permissions(action, pdp) ==
    LET calls == IssueAll(pdp, [i \in 1..Len(action_permissions_keys) |->
                                   action_permissions_check(action_permissions_keys[i])])
    IN  IF calls[Len(calls)].answer = "error"
        THEN Raise(calls, "Action permission check failed: ")
        ELSE \* action_permissions.get(action, False)
             IF \E i \in 1..Len(action_permissions_keys) :
                    action_permissions_keys[i] = action
             THEN Return(calls,
                         calls[CHOOSE i \in 1..Len(action_permissions_keys) :
                                   action_permissions_keys[i] = action].answer = "allow")
             ELSE Return(calls, FALSE)

\* mutant: every required disclaimer is appended, present already or not
validate_financial_response_unguarded(response, pdp) ==
    LET c1 == Issued(pdp, ComplianceKey(response.certification_level))
        required_disclaimers == get_required_disclaimers(response.certification_level)
        compliance_notes == response.compliance_notes \o required_disclaimers
        risk_warnings ==
            IF needs_risk_warnings(response.answer)
            THEN response.risk_warnings \o get_required_risk_warnings(response.answer)
            ELSE response.risk_warnings
    IN  IF c1.answer = "error"
        THEN [out |-> Raise(<<c1>>, "Response validation failed: "),
              response |-> response]
        ELSE [out |-> Return(<<c1>>,
                             [permitted |-> (c1.answer = "allow"),
                              certification_verified |-> response.certification_level,
                              warnings |-> compliance_notes \o risk_warnings]),
              response |-> [response EXCEPT !.compliance_notes = compliance_notes,
                                            !.risk_warnings = risk_warnings]]

\* the gate's outcome and the response object as the gate leaves it
validate_financial_response(response, pdp) ==
    LET c1 == Issued(pdp, ComplianceKey(response.certification_level))
        required_disclaimers == get_required_disclaimers(response.certification_level)
        missing_disclaimers == NotIn(required_disclaimers, response.compliance_notes)
        compliance_notes == response.compliance_notes \o missing_disclaimers
        risk_warnings ==
            IF needs_risk_warnings(response.answer)
            THEN response.risk_warnings \o get_required_risk_warnings(response.answer)
            ELSE response.risk_warnings
    IN  IF c1.answer = "error"
        THEN [out |-> Raise(<<c1>>, "Response validation failed: "),
              response |-> response]
        ELSE [out |-> Return(<<c1>>,
                             [permitted |-> (c1.answer = "allow"),
                              certification_verified |-> response.certification_level,
                              warnings |-> compliance_notes \o risk_warnings]),
              response |-> [response EXCEPT !.compliance_notes = compliance_notes,
                                            !.risk_warnings = risk_warnings]]

(***************************************************************************)
(* Inputs: the bounded sets the arguments of the gates are drawn from.     *)
(***************************************************************************)
Q_hi == <<"h","i">>
Q_forex == <<"F","o","r","e","x"," ","t","a","x">>
A_plain == <<"o","k">>
A_stock == <<"B","u","y"," ","s","t","o","c","k">>

Questions == {Q_hi, Q_forex}
PortfolioValues == {None, Some(0), Some(150000)}
Queries == [question : Questions, portfolio_value : PortfolioValues]

Answers == {A_plain, A_stock}
\* FinancialResponse of src/main.py
AdviceResponses ==
    [answer : Answers, compliance_notes : {<<>>}, used_premium_features : BOOLEAN]
\* FinancialResponse of src/project/main.py, as the orchestrator drafts it
CertificationLevels == {"general", "basic"}
Drafts ==
    [answer : Answers, compliance_notes : {<<>>},
     certification_level : CertificationLevels, risk_warnings : {<<>>}]
ActionNames ==
    {"basic_advice", "portfolio_analysis", "specific_recommendations", "update_portfolio"}

\* the checks each gate can issue for these inputs
VFQKeys(query) == {SubmitKey(query), AnalyzePortfolioKey}
VFAKeys(response) == {ReceiveKey(response), AccessPremiumKey}
AFKKeys == {AccessPremiumDocsKey}
VMDAKeys == {ApiKey("market_data"), ApiKey("portfolio_analysis")}
PVFQKeys(query) ==
    {CertificationKey(get_required_certification(query)),
     RegulatoryKey(categorize_query(query))}
PAFKKeys == {ProfessionalDocsKey, ExpertDocsKey}
CAPKeys ==
    {action_permissions_check(action_permissions_keys[i]) :
        i \in 1..Len(action_permissions_keys)}
VFRKeys(response) == {ComplianceKey(response.certification_level)}

MainKeys ==
    UNION {VFQKeys(q) : q \in Queries} \cup UNION {VFAKeys(r) : r \in AdviceResponses}
        \cup AFKKeys \cup VMDAKeys
ProjectKeys ==
    UNION {PVFQKeys(q) : q \in Queries} \cup PAFKKeys \cup CAPKeys
        \cup UNION {VFRKeys(r) : r \in Drafts}
Keys(prog) == IF prog = "main" THEN MainKeys ELSE ProjectKeys

\* the checks of `keys` that may fail in one invocation: none, or one of them
\* (a gate stops at its first PermitApiError)
Downs(keys) == {{}} \cup {{key} : key \in keys}

NoResponse ==
    [answer |-> <<>>, compliance_notes |-> <<>>, certification_level |-> "general",
     risk_warnings |-> <<>>]
NoTurn == [run |-> 0, state |-> "idle", gates |-> <<>>]
\* the provisioning script is not running
NoProvisioning ==
    [status |-> "idle", calls |-> <<>>, reported |-> <<>>, completed |-> FALSE]

Init ==
    /\ program \in {"main", "project"}
    /\ policy \in {{}, Keys(program)}
    /\ changes = 0
    /\ fresh = TRUE
    /\ result = [gate |-> "none", args |-> <<>>, out |-> Return(<<>>, NoValue)]
    /\ draft = NoResponse
    /\ turn = NoTurn
    /\ provisioning = NoProvisioning

\* the PDP as one gate invocation sees it
PDP(down) == [policy |-> policy, down |-> down]

\* a gate was invoked with `args` and ended with `out`
Invoke(gate, args, out) ==
    /\ result' = [gate |-> gate, args |-> args, out |-> out]
    /\ fresh' = TRUE
    /\ UNCHANGED <<program, policy, changes, provisioning>>

(***************************************************************************)
(* One step per gate: the tool is called with arguments of the caller's    *)
(* choice; `down` are the checks whose call fails during this invocation.  *)
(***************************************************************************)
VFQStep(query, down) ==
    /\ program = "main"
    /\ Invoke("validate_financial_query", query,
              validate_financial_query(query, PDP(down)))
    /\ UNCHANGED draft

VFAStep(resp, down) ==
    /\ program = "main"
    /\ Invoke("validate_financial_advice", resp,
              validate_financial_advice(resp, PDP(down)))
    /\ UNCHANGED draft

AFKStep(query, down) ==
    /\ program = "main"
    /\ Invoke("access_financial_knowledge", query,
              access_financial_knowledge(query, PDP(down)))
    /\ UNCHANGED draft

VMDAStep(down) ==
    /\ program = "main"
    /\ Invoke("validate_market_data_access", <<>>,
              validate_market_data_access(<<>>, PDP(down)))
    /\ UNCHANGED draft

PVFQStep(query, down) ==
    /\ program = "project"
    /\ Invoke("project_validate_financial_query", query,
              project_validate_financial_query(query, PDP(down)))
    /\ UNCHANGED draft

PAFKStep(query, down) ==
    /\ program = "project"
    /\ Invoke("project_access_financial_knowledge", query,
              project_access_financial_knowledge(query, PDP(down)))
    /\ UNCHANGED draft

CAPStep(action, down) ==
    /\ program = "project"
    /\ Invoke("check_action_permissions", action,
              check_action_permissions(action, PDP(down)))
    /\ UNCHANGED draft

\* the tool call builds a new FinancialResponse from its arguments; the gate
\* mutates that object, which nothing holds once the call has returned
VFRStep(resp, down) ==
    /\ program = "project"
    /\ Invoke("validate_financial_response", resp,
              validate_financial_response(resp, PDP(down)).out)
    /\ UNCHANGED draft

\* the gate is called on the response object the caller holds and mutates it
HeldVFRStep(down) ==
    /\ program = "project"
    /\ Len(draft.risk_warnings) < MaxWarnings
    /\ LET r == validate_financial_response(draft, PDP(down))
       IN  /\ Invoke("validate_financial_response", draft, r.out)
           /\ draft' = r.response

(***************************************************************************)
(* Spec: the gates of either script called directly, in any order, while   *)
(* the PDP's policy state changes under them.                              *)
(***************************************************************************)
ValidateFinancialQuery ==
    \E query \in Queries : \E down \in Downs(VFQKeys(query)) :
        VFQStep(query, down) /\ UNCHANGED turn

ValidateFinancialAdvice ==
    \E resp \in AdviceResponses : \E down \in Downs(VFAKeys(resp)) :
        VFAStep(resp, down) /\ UNCHANGED turn

AccessFinancialKnowledge ==
    \E query \in Queries, down \in Downs(AFKKeys) :
        AFKStep(query, down) /\ UNCHANGED turn

ValidateMarketDataAccess ==
    \E down \in Downs(VMDAKeys) : VMDAStep(down) /\ UNCHANGED turn

ProjectValidateFinancialQuery ==
    \E query \in Queries : \E down \in Downs(PVFQKeys(query)) :
        PVFQStep(query, down) /\ UNCHANGED turn

ProjectAccessFinancialKnowledge ==
    \E query \in Queries, down \in Downs(PAFKKeys) :
        PAFKStep(query, down) /\ UNCHANGED turn

CheckActionPermissions ==
    \E action \in ActionNames, down \in Downs(CAPKeys) :
        CAPStep(action, down) /\ UNCHANGED turn

\* the tool call builds a new response object from the caller's arguments
ValidateFinancialResponse ==
    \E resp \in Drafts : \E down \in Downs(VFRKeys(resp)) :
        VFRStep(resp, down) /\ UNCHANGED turn

\* the policy state of the PDP changes: one check of `keys` flips between
\* allow and deny
PolicyChangeOn(keys) ==
    /\ changes < MaxPolicyChanges
    /\ \E key \in keys :
          policy' = IF key \in policy THEN policy \ {key} ELSE policy \cup {key}
    /\ changes' = changes + 1
    /\ fresh' = FALSE
    /\ UNCHANGED <<program, result, draft, turn, provisioning>>

PolicyChange == PolicyChangeOn(Keys(program))

Next ==
    \/ ValidateFinancialQuery
    \/ ValidateFinancialAdvice
    \/ AccessFinancialKnowledge
    \/ ValidateMarketDataAccess
    \/ ProjectValidateFinancialQuery
    \/ ProjectAccessFinancialKnowledge
    \/ CheckActionPermissions
    \/ ValidateFinancialResponse
    \/ PolicyChange

Spec == Init /\ [][Next]_vars

(***************************************************************************)
(* SpecResponse: validate_financial_response called, any number of times,  *)
(* on the Draft Response object the caller holds.                          *)
(***************************************************************************)
A_equity == <<"B","u","y"," ","e","q","u","i","t","y">>
ResponseAnswers == Answers \cup {A_equity}
ResponseDrafts ==
    [answer : ResponseAnswers,
     compliance_notes : {<<>>, <<"Financial advice may not be suitable for everyone">>},
     certification_level : {"expert", "basic"},
     risk_warnings : {<<>>}]
    \cup
    \* a response whose notes already hold a required disclaimer twice
    {[answer |-> A_plain,
      compliance_notes |-> <<"Financial advice may not be suitable for everyone",
                             "Financial advice may not be suitable for everyone">>,
      certification_level |-> "expert",
      risk_warnings |-> <<>>]}
ComplianceKeys == UNION {VFRKeys(r) : r \in ResponseDrafts}

ResponseInit ==
    /\ program = "project"
    /\ policy \in {{}, ComplianceKeys}
    /\ changes = 0
    /\ fresh = TRUE
    /\ result = [gate |-> "none", args |-> <<>>, out |-> Return(<<>>, NoValue)]
    /\ draft \in ResponseDrafts
    /\ turn = NoTurn
    /\ provisioning = NoProvisioning

\* the orchestrator drafts a new response
NewDraft ==
    /\ \E r \in ResponseDrafts : draft' = r
    /\ UNCHANGED <<program, policy, changes, fresh, result, turn, provisioning>>

ValidateHeldResponse ==
    \E down \in Downs(VFRKeys(draft)) : HeldVFRStep(down) /\ UNCHANGED turn

CompliancePolicyChange == PolicyChangeOn(ComplianceKeys)

ResponseNext ==
    \/ NewDraft
    \/ ValidateHeldResponse
    \/ CompliancePolicyChange

SpecResponse == ResponseInit /\ [][ResponseNext]_vars

(***************************************************************************)
(* SpecTurn: main() of src/project/main.py.  Three agent runs in one try   *)
(* block; in a run the model calls the registered tools in an order and    *)
(* with arguments of its own choice, then gives its final result.  A       *)
(* SecurityError raised by a tool leaves the run and the try block.        *)
(***************************************************************************)
NumRuns == 3

TurnQueries == {[question |-> Q_forex, portfolio_value |-> None]}
TurnActions == {"portfolio_analysis"}
TurnDrafts ==
    {[answer |-> A_stock, compliance_notes |-> <<>>,
      certification_level |-> "general", risk_warnings |-> <<>>]}

TurnInit ==
    /\ program = "project"
    /\ policy \in {{}, ProjectKeys}
    /\ changes = 0
    /\ fresh = TRUE
    /\ result = [gate |-> "none", args |-> <<>>, out |-> Return(<<>>, NoValue)]
    /\ draft = NoResponse
    /\ turn = NoTurn
    /\ provisioning = NoProvisioning

\* what the tool call hands back to the run: "error" (SecurityError),
\* "permitted" or "denied"; a document list denies nothing
Outcome(res) ==
    IF res.out.kind = "raise" THEN "error"
    ELSE IF res.gate = "project_access_financial_knowledge" THEN "permitted"
    ELSE IF res.gate = "check_action_permissions"
         THEN (IF res.out.value THEN "permitted" ELSE "denied")
    ELSE IF res.out.value.permitted THEN "permitted" ELSE "denied"

\* financial_agent.run(...) is entered
StartRun ==
    /\ turn.state \in {"idle", "done"}
    /\ turn.run < NumRuns
    /\ turn' = [run |-> turn.run + 1, state |-> "running", gates |-> <<>>]
    /\ UNCHANGED <<program, policy, changes, fresh, result, draft, provisioning>>

\* the run calls a tool; a SecurityError ends the run and main()
ToolCalled ==
    /\ turn.state = "running"
    /\ Len(turn.gates) < MaxToolCalls
    /\ turn' = [turn EXCEPT
                   !.state = IF Outcome(result') = "error" THEN "failed" ELSE @,
                   !.gates = Append(@, [gate |-> result'.gate,
                                        outcome |-> Outcome(result')])]

TurnValidateFinancialQuery ==
    \E query \in TurnQueries : \E down \in Downs(PVFQKeys(query)) :
        PVFQStep(query, down) /\ ToolCalled

TurnAccessFinancialKnowledge ==
    \E query \in TurnQueries, down \in Downs(PAFKKeys) :
        PAFKStep(query, down) /\ ToolCalled

TurnCheckActionPermissions ==
    \E action \in TurnActions, down \in Downs(CAPKeys) :
        CAPStep(action, down) /\ ToolCalled

TurnValidateFinancialResponse ==
    \E resp \in TurnDrafts : \E down \in Downs(VFRKeys(resp)) :
        VFRStep(resp, down) /\ ToolCalled

\* the run returns its result, which main() prints
FinalResult ==
    /\ turn.state = "running"
    /\ turn' = [turn EXCEPT !.state = "done"]
    /\ UNCHANGED <<program, policy, changes, fresh, result, draft, provisioning>>

TurnNext ==
    \/ StartRun
    \/ TurnValidateFinancialQuery
    \/ TurnAccessFinancialKnowledge
    \/ TurnCheckActionPermissions
    \/ TurnValidateFinancialResponse
    \/ FinalResult
    \/ PolicyChange

SpecTurn == TurnInit /\ [][TurnNext]_vars


(***************************************************************************)
(* SpecCertification: get_required_certification applied to queries whose  *)
(* question and portfolio_value are drawn from bounded sets that hold       *)
(* questions with and without keywords (in either case) and portfolio       *)
(* values on both sides of each threshold.                                  *)
(***************************************************************************)

CertificationQuestions ==
    {Q_hi, Q_forex,
     <<"g","o","l","d">>,   \* "gold"
     <<"S","a","v","i","n","g","s">>,   \* "Savings"
     <<"A"," ","H","E","D","G","E">>,   \* "A HEDGE"
     <<"o","p","t","i","o","n","s"," ","t","r","a","d","i","n","g">>,   \* "options trading"
     <<"M","y"," ","P","o","r","t","f","o","l","i","o">>,   \* "My Portfolio"
     <<"r","e","t","i","r","e","m","e","n","t">>,   \* "retirement"
     <<"T","a","x"," ","S","t","r","a","t","e","g","y">>,   \* "Tax Strategy"
     <<"p","e","n","s","i","o","n">>,   \* "pension"
     <<"I","n","s","t","i","t","u","t","i","o","n","a","l">>    \* "Institutional"
    }
CertificationValues ==
    {None, Some(-1), Some(0), Some(1), Some(150000), Some(1500000),
     Some(ProfessionalPortfolioValue - 1), Some(ProfessionalPortfolioValue),
     Some(ExpertPortfolioValue - 1), Some(ExpertPortfolioValue)}
CertificationQueries ==
    [question : CertificationQuestions, portfolio_value : CertificationValues]

CertificationInit ==
    /\ program = "project"
    /\ policy = {}
    /\ changes = 0
    /\ fresh = TRUE
    /\ result = [gate |-> "none", args |-> <<>>, out |-> Return(<<>>, NoValue)]
    /\ draft = NoResponse
    /\ turn = NoTurn
    /\ provisioning = NoProvisioning

\* the helper is called on a query; it issues no check
GetRequiredCertification ==
    /\ \E query \in CertificationQueries :
          result' = [gate |-> "get_required_certification", args |-> query,
                     out |-> Return(<<>>, get_required_certification(query))]
    /\ UNCHANGED <<program, policy, changes, fresh, draft, turn, provisioning>>

CertificationNext == GetRequiredCertification

SpecCertification == CertificationInit /\ [][CertificationNext]_vars


(***************************************************************************)
(* The catalogs the provisioning scripts push to the PDP: the resources    *)
(* with their actions, and the roles with their permissions.               *)
(***************************************************************************)
\* src/config.py
config_resources ==
    << [key |-> "financial_query", actions |-> <<"submit", "analyze_portfolio">>],
       [key |-> "financial_advice", actions |-> <<"receive", "access_premium">>],
       [key |-> "documentation", actions |-> <<"read", "access_premium_docs">>],
       [key |-> "api", actions |-> <<"access">>] >>

config_roles ==
    << [name |-> "free_tier",
        permissions |->
            << [resource |-> "financial_query", actions |-> <<"submit">>],
               [resource |-> "financial_advice", actions |-> <<"receive">>],
               [resource |-> "documentation", actions |-> <<"read">>] >>],
       [name |-> "premium_tier",
        permissions |->
            << [resource |-> "financial_query",
                actions |-> <<"submit", "analyze_portfolio">>],
               [resource |-> "financial_advice",
                actions |-> <<"receive", "access_premium">>],
               [resource |-> "documentation",
                actions |-> <<"read", "access_premium_docs">>],
               [resource |-> "api", actions |-> <<"access">>] >>] >>

\* src/project/config.py; role.get("permissions", []) of restricted_user is []
project_config_resources ==
    << [key |-> "financial_advice", actions |-> <<"receive">>],
       [key |-> "financial_document", actions |-> <<"read">>],
       [key |-> "financial_response", actions |-> <<"requires_disclaimer">>],
       [key |-> "portfolio", actions |-> <<"update", "read", "analyze">>] >>

project_config_roles ==
    << [name |-> "restricted_user", permissions |-> <<>>],
       [name |-> "premium_user",
        permissions |->
            << [resource |-> "financial_advice", actions |-> <<"receive">>],
               [resource |-> "financial_document", actions |-> <<"read">>],
               [resource |-> "portfolio",
                actions |-> <<"update", "read", "analyze">>] >>] >>


\* the other catalogs of src/project/config.py, by key (name for a set)
user_attributes == << "clearance_level", "ai_advice_opted_in" >>
user_sets == << "opted_in_users", "high_clearance_users" >>
resource_sets == << "confidential_docs", "finance_advice" >>
condition_set_rules ==
    << [user_set |-> "opted_in_users", permission |-> "financial_advice:receive",
        resource_set |-> "finance_advice"],
       [user_set |-> "high_clearance_users", permission |-> "financial_document:read",
        resource_set |-> "confidential_docs"] >>
example_users ==
    << [key |-> "user@example.com", role |-> "premium_user"],
       [key |-> "restricted@example.com", role |-> "restricted_user"] >>

(***************************************************************************)
(* SpecProvision: create_permit_config of src/config.py (program "main")   *)
(* and of src/project/config.py (program "project").  Each awaited         *)
(* permit.api call is one step and succeeds or raises; the handlers that   *)
(* run after a failed call belong to the step of that call.                *)
(***************************************************************************)
\* one awaited call of the Permit API, named by its method and its argument
ApiCall(api, item) == [api |-> api, item |-> item]

\* the calls of src/config.py in the order of its two loops
create_permit_config_calls ==
    [i \in 1..Len(config_resources) |->
        ApiCall("resources.create", config_resources[i].key)]
    \o [i \in 1..Len(config_roles) |-> ApiCall("roles.create", config_roles[i].name)]

\* permit.api.users.sync, then permit.api.users.assign_role, for every user
RECURSIVE user_calls(_)
user_calls(users) ==
    IF users = <<>> THEN <<>>
    ELSE << ApiCall("users.sync", Head(users).key),
            ApiCall("users.assign_role", [user |-> Head(users).key,
                                          role |-> Head(users).role]) >>
         \o user_calls(Tail(users))

\* the calls of src/project/config.py in the order of its seven loops
project_create_permit_config_calls ==
    [i \in 1..Len(project_config_resources) |->
        ApiCall("resources.create", project_config_resources[i].key)]
    \o [i \in 1..Len(user_attributes) |->
        ApiCall("resource_attributes.create", user_attributes[i])]
    \o [i \in 1..Len(project_config_roles) |->
        ApiCall("roles.create", project_config_roles[i].name)]
    \o [i \in 1..Len(user_sets) |-> ApiCall("condition_sets.create", user_sets[i])]
    \o [i \in 1..Len(resource_sets) |->
        ApiCall("condition_sets.create", resource_sets[i])]
    \o [i \in 1..Len(condition_set_rules) |->
        ApiCall("condition_set_rules.create", condition_set_rules[i])]
    \o user_calls(example_users)

\* src/config.py: the next call is awaited and succeeds (ok) or raises; a
\* failure is printed by the loop's except clause and the loop goes on; the
\* function returns after the last call
create_permit_config(state, ok) ==
    LET call == create_permit_config_calls[Len(state.calls) + 1]
        calls == Append(state.calls, [call |-> call, ok |-> ok])
    IN  [status |-> IF Len(calls) = Len(create_permit_config_calls)
                    THEN "returned" ELSE "running",
         calls |-> calls,
         reported |-> IF ok THEN state.reported ELSE Append(state.reported, call),
         completed |-> FALSE]

\* mutant: the loops' except clauses print the failure and do not re-raise
project_create_permit_config_continue(state, ok) ==
    LET call == project_create_permit_config_calls[Len(state.calls) + 1]
        calls == Append(state.calls, [call |-> call, ok |-> ok])
        last == Len(calls) = Len(project_create_permit_config_calls)
    IN  [status |-> IF last THEN "returned" ELSE "running",
         calls |-> calls,
         reported |-> IF ok THEN state.reported ELSE Append(state.reported, call),
         completed |-> last]

\* src/project/config.py: the next call is awaited and succeeds (ok) or
\* raises; a failure is printed and re-raised by the loop's except clause,
\* printed and re-raised again by the outer one; after the last call
\* "Configuration completed successfully" is printed
project_create_permit_config(state, ok) ==
    LET call == project_create_permit_config_calls[Len(state.calls) + 1]
        calls == Append(state.calls, [call |-> call, ok |-> ok])
        last == Len(calls) = Len(project_create_permit_config_calls)
    IN  IF ok
        THEN [status |-> IF last THEN "returned" ELSE "running",
              calls |-> calls,
              reported |-> state.reported,
              completed |-> last]
        ELSE [status |-> "raised",
              calls |-> calls,
              reported |-> Append(state.reported, call),
              completed |-> FALSE]

\* asyncio.run(create_permit_config()) has started
ProvisionInit ==
    /\ program \in {"main", "project"}
    /\ policy = {}
    /\ changes = 0
    /\ fresh = TRUE
    /\ result = [gate |-> "none", args |-> <<>>, out |-> Return(<<>>, NoValue)]
    /\ draft = NoResponse
    /\ turn = NoTurn
    /\ provisioning = [NoProvisioning EXCEPT !.status = "running"]

ConfigCall ==
    /\ program = "main"
    /\ provisioning.status = "running"
    /\ \E ok \in BOOLEAN : provisioning' = create_permit_config(provisioning, ok)
    /\ UNCHANGED <<program, policy, changes, fresh, result, draft, turn>>

ProjectConfigCall ==
    /\ program = "project"
    /\ provisioning.status = "running"
    /\ \E ok \in BOOLEAN : provisioning' = project_create_permit_config(provisioning, ok)
    /\ UNCHANGED <<program, policy, changes, fresh, result, draft, turn>>

ProvisionNext ==
    \/ ConfigCall
    \/ ProjectConfigCall

SpecProvision == ProvisionInit /\ [][ProvisionNext]_vars


(***************************************************************************)
(* Properties.                                                             *)
(***************************************************************************)
\* the checks the last gate invocation issued, with their answers
Calls == result.out.calls

Returned == result.out.kind = "return"
Raised == result.out.kind = "raise"

\* the last invocation issued `key` and the PDP answered `answer`
Answered(key, answer) ==
    \E i \in 1..Len(Calls) : Calls[i].key = key /\ Calls[i].answer = answer

WasIssued(key) == \E i \in 1..Len(Calls) : Calls[i].key = key

\* some check of the last invocation failed with a PDP error
PdpErrorSeen == \E i \in 1..Len(Calls) : Calls[i].answer = "error"

NoDuplicates(seq) == \A i, j \in 1..Len(seq) : seq[i] = seq[j] => i = j

\* `a` is `b` with some elements left out, the order kept
RECURSIVE IsSubsequence(_, _)
IsSubsequence(a, b) ==
    IF a = <<>> THEN TRUE
    ELSE IF b = <<>> THEN FALSE
    ELSE IF Head(a) = Head(b) THEN IsSubsequence(Tail(a), Tail(b))
    ELSE IsSubsequence(a, Tail(b))

PromptGate == "project_validate_financial_query"
RetrievalGate == "project_access_financial_knowledge"
ActionGate == "check_action_permissions"
ResponseGate == "validate_financial_response"

\* C1: in a turn, once a gate has returned not-permitted or raised a PDP
\* error, no later gate is invoked and no response is emitted: a gate entry
\* that is not "permitted" is the last of its turn, and the turn is not done.
C1_DenialEndsTurn ==
    \A i \in 1..Len(turn.gates) :
        turn.gates[i].outcome # "permitted" =>
            i = Len(turn.gates) /\ turn.state # "done"

\* the position of a gate in the pipeline
GateRank(gate) ==
    CASE gate = PromptGate -> 1
      [] gate = RetrievalGate -> 2
      [] gate = ActionGate -> 3
      [] gate = ResponseGate -> 4

\* C3: in a turn the gates run in the order Prompt, Retrieval?, Action?,
\* Response: no other gate is invoked before the Prompt Gate has returned
\* permitted, and the turn is not done unless the Response Gate was invoked.
C3_GateOrder ==
    /\ \A i \in 1..Len(turn.gates) :
          turn.gates[i].gate # PromptGate =>
              \E j \in 1..(i - 1) :
                  turn.gates[j].gate = PromptGate /\ turn.gates[j].outcome = "permitted"
    /\ \A i, j \in 1..Len(turn.gates) :
          i < j => GateRank(turn.gates[i].gate) <= GateRank(turn.gates[j].gate)
    /\ turn.state = "done" => \E i \in 1..Len(turn.gates) : turn.gates[i].gate = ResponseGate


\* the message prefix of the SecurityError each gate raises
GatePrefix(gate) ==
    CASE gate = "validate_financial_query" -> "Permission check failed: "
      [] gate = "validate_financial_advice" -> "Permission check failed: "
      [] gate = "access_financial_knowledge" -> "Documentation access check failed: "
      [] gate = "validate_market_data_access" -> "API permission check failed: "
      [] gate = PromptGate -> "Advice permission check failed: "
      [] gate = RetrievalGate -> "Documentation access check failed: "
      [] gate = ActionGate -> "Action permission check failed: "
      [] gate = ResponseGate -> "Response validation failed: "

\* C2: for every gate of both scripts, an invocation in which a PDP check
\* failed with a PDP error ends by raising a SecurityError that carries the
\* gate's message prefix; it returns no result.
C2_PdpErrorRaises ==
    PdpErrorSeen =>
        /\ Raised
        /\ result.out.value = NoValue
        /\ result.out.error.type = "SecurityError"
        /\ result.out.error.prefix = GatePrefix(result.gate)

\* C2 witness: the Action Gate raised after its second check failed
C2_Witness ==
    /\ result.gate = ActionGate
    /\ Raised
    /\ Len(Calls) = 2
    /\ Calls[1].answer = "allow"
    /\ Calls[2].answer = "error"

\* the response object is as the last Response Gate invocation left it
ProcessedOnce ==
    /\ result.gate = ResponseGate
    /\ Returned
    /\ draft.answer = result.args.answer
    /\ draft.certification_level = result.args.certification_level
    /\ draft.compliance_notes \o draft.risk_warnings = result.out.value.warnings

\* C4: the Response Gate is idempotent: invoked again on a response it has
\* just processed, it leaves answer, compliance_notes and risk_warnings as
\* they were after the first invocation.
C4_Idempotent ==
    [][ (ProcessedOnce /\ ValidateHeldResponse) =>
            /\ draft'.answer = draft.answer
            /\ draft'.compliance_notes = draft.compliance_notes
            /\ draft'.risk_warnings = draft.risk_warnings ]_vars

\* the last invocation was one of the two Retrieval Gates and returned
RetrievalReturned ==
    /\ result.gate \in {"access_financial_knowledge", RetrievalGate}
    /\ Returned

\* the categories the PDP check `key` stands for
TierDocs(key) ==
    CASE key = AccessPremiumDocsKey -> premium_docs
      [] key = ProfessionalDocsKey -> professional_docs
      [] key = ExpertDocsKey -> expert_docs
      [] OTHER -> <<>>

\* the base categories and the whole catalogue of each Retrieval Gate
BaseDocs(gate) ==
    IF gate = "access_financial_knowledge" THEN basic_docs ELSE general_docs
Catalogue(gate) ==
    IF gate = "access_financial_knowledge" THEN basic_docs \o premium_docs
    ELSE general_docs \o professional_docs \o expert_docs

BothEndpointsAllowed ==
    /\ Answered(ApiKey("market_data"), "allow")
    /\ Answered(ApiKey("portfolio_analysis"), "allow")

\* C6: validate_market_data_access returns true if and only if the PDP
\* allowed both endpoint checks; when it returns with either check denied
\* the result is false; a result given under the current policy state is
\* true exactly when that state allows both endpoints.
C6_AllEndpointsRequired ==
    result.gate = "validate_market_data_access" =>
        /\ (Returned /\ result.out.value = TRUE) <=> BothEndpointsAllowed
        /\ Returned => result.out.value = BothEndpointsAllowed
        /\ (Returned /\ fresh) =>
              result.out.value =
                  ({ApiKey("market_data"), ApiKey("portfolio_analysis")} \subseteq policy)

\* C6 witness: partial access, one endpoint allowed and one denied, is denial
C6_Witness ==
    /\ result.gate = "validate_market_data_access"
    /\ Returned
    /\ Answered(ApiKey("market_data"), "allow")
    /\ Answered(ApiKey("portfolio_analysis"), "deny")
    /\ result.out.value = FALSE

\* the first check each gate issues for its arguments
FirstCheck(gate, args) ==
    CASE gate = "validate_financial_query" -> SubmitKey(args)
      [] gate = "validate_financial_advice" -> ReceiveKey(args)
      [] gate = "access_financial_knowledge" -> AccessPremiumDocsKey
      [] gate = "validate_market_data_access" -> ApiKey("market_data")
      [] gate = PromptGate -> CertificationKey(get_required_certification(args))
      [] gate = RetrievalGate -> ProfessionalDocsKey
      [] gate = ActionGate -> ActionKey("provide", "basic_advice")
      [] gate = ResponseGate -> ComplianceKey(args.certification_level)

\* what each gate decides for its arguments under the policy state `pol`
DecisionUnder(gate, args, pol) ==
    CASE gate = "validate_financial_query" ->
            /\ SubmitKey(args) \in pol
            /\ (args.portfolio_value # None => AnalyzePortfolioKey \in pol)
      [] gate = "validate_financial_advice" ->
            /\ ReceiveKey(args) \in pol
            /\ (args.used_premium_features => AccessPremiumKey \in pol)
      [] gate = "access_financial_knowledge" ->
            IF AccessPremiumDocsKey \in pol THEN basic_docs \o premium_docs ELSE basic_docs
      [] gate = "validate_market_data_access" ->
            {ApiKey("market_data"), ApiKey("portfolio_analysis")} \subseteq pol
      [] gate = PromptGate ->
            /\ CertificationKey(get_required_certification(args)) \in pol
            /\ RegulatoryKey(categorize_query(args)) \in pol
      [] gate = RetrievalGate ->
            general_docs
                \o (IF ProfessionalDocsKey \in pol THEN professional_docs ELSE <<>>)
                \o (IF ExpertDocsKey \in pol THEN expert_docs ELSE <<>>)
      [] gate = ActionGate ->
            \/ args = "basic_advice" /\ ActionKey("provide", "basic_advice") \in pol
            \/ args = "portfolio_analysis"
                  /\ ActionKey("analyze", "portfolio_analysis") \in pol
            \/ args = "specific_recommendations"
                  /\ ActionKey("recommend", "specific_recommendations") \in pol
      [] gate = ResponseGate -> ComplianceKey(args.certification_level) \in pol

\* the decision the last invocation returned
Decision ==
    IF result.gate \in {"validate_financial_query", "validate_financial_advice",
                        PromptGate, ResponseGate}
    THEN result.out.value.permitted
    ELSE result.out.value

\* C7: no gate caches or retries a PDP decision: every invocation issues its
\* checks anew, each at most once, and its answers and its result are those
\* of the policy state at the time of the invocation, also after the policy
\* state has changed since an earlier invocation with the same arguments.
C7_FreshChecks ==
    result.gate # "none" =>
        /\ Calls # <<>>
        /\ Calls[1].key = FirstCheck(result.gate, result.args)
        /\ NoDuplicates([i \in 1..Len(Calls) |-> Calls[i].key])
        /\ fresh =>
              /\ \A i \in 1..Len(Calls) :
                    Calls[i].answer # "error" =>
                        (Calls[i].answer = "allow" <=> Calls[i].key \in policy)
              /\ Returned => Decision = DecisionUnder(result.gate, result.args, policy)

\* C7 witness: the policy state allowed nothing, then came to allow one
\* check, and the Action Gate invoked after the change returns true
C7_Witness ==
    /\ result.gate = ActionGate
    /\ changes = 1
    /\ fresh
    /\ Cardinality(policy) = 1
    /\ Returned
    /\ result.out.value = TRUE

\* C8: an invocation of check_action_permissions(action) issues exactly one
\* PDP check, the one whose resource descriptor names the requested action.
C8_OneCheckPerAction ==
    result.gate = ActionGate =>
        /\ Len(Calls) = 1
        /\ Calls[1].key.resource.action = result.args

IsQueryGate == result.gate = "validate_financial_query"

\* C9 as stated: the submit check is issued first; the analyze_portfolio
\* check is issued if and only if portfolio_value is not None; permitted is
\* the base result without a portfolio value, the AND of both with one.
C9_PortfolioCheckIffPresent ==
    IsQueryGate =>
        /\ Calls[1].key = SubmitKey(result.args)
        /\ WasIssued(AnalyzePortfolioKey) <=> result.args.portfolio_value # None
        /\ Returned =>
              result.out.value.permitted =
                  IF result.args.portfolio_value = None
                  THEN Calls[1].answer = "allow"
                  ELSE Calls[1].answer = "allow" /\ Calls[2].answer = "allow"

\* C9 amended: as C9, but the analyze_portfolio check is issued if and only
\* if portfolio_value is not None and the submit check did not fail with a
\* PDP error; it is the second and last check.
C9_PortfolioCheckAfterBase ==
    IsQueryGate =>
        /\ Calls[1].key = SubmitKey(result.args)
        /\ WasIssued(AnalyzePortfolioKey) <=>
              (result.args.portfolio_value # None /\ Calls[1].answer # "error")
        /\ WasIssued(AnalyzePortfolioKey) =>
              Len(Calls) = 2 /\ Calls[2].key = AnalyzePortfolioKey
        /\ ~WasIssued(AnalyzePortfolioKey) => Len(Calls) = 1
        /\ Returned =>
              result.out.value.permitted =
                  IF result.args.portfolio_value = None
                  THEN Calls[1].answer = "allow"
                  ELSE Calls[1].answer = "allow" /\ Calls[2].answer = "allow"

\* C9 witness: a portfolio value of 0 is present: the second check was
\* issued, and its denial made permitted false though the base check passed
C9_Witness ==
    /\ IsQueryGate
    /\ result.args.portfolio_value = Some(0)
    /\ Returned
    /\ Len(Calls) = 2
    /\ Calls[1].answer = "allow"
    /\ Calls[2].answer = "deny"
    /\ result.out.value.permitted = FALSE

\* C10: whenever the base check of validate_financial_query (src/main.py)
\* passes and the portfolio sub-check is denied, the gate returns with the
\* warning "Portfolio analysis requires premium" and permitted false.
C10_PortfolioDeniedWarns ==
    (IsQueryGate /\ Answered(SubmitKey(result.args), "allow")
        /\ Answered(AnalyzePortfolioKey, "deny")) =>
        /\ Returned
        /\ InList("Portfolio analysis requires premium", result.out.value.warnings)
        /\ result.out.value.permitted = FALSE

\* C10 witness: base check allowed, portfolio sub-check denied
C10_Witness ==
    /\ IsQueryGate
    /\ Returned
    /\ Answered(SubmitKey(result.args), "allow")
    /\ Answered(AnalyzePortfolioKey, "deny")
    /\ result.out.value.warnings = <<"Portfolio analysis requires premium">>


\* the query matches a keyword of categorize_query's categories: it asks for
\* advice of some category
AdviceSeeking(query) ==
    \E i \in 1..Len(categories) : AnyIn(categories[i].keywords, lower(query.question))

\* the warning text mentions opt-in ("opt-in", "opted in", "Opt in", ...)
MentionsOptIn(warning) == Contains("opt", warning) \/ Contains("Opt", warning)

\* every check of the last invocation was answered deny: what the PDP answers
\* a subject that no role permission and no condition-set rule covers
\* (restricted@example.com: role restricted_user, ai_advice_opted_in false)
AllDenied == Calls # <<>> /\ \A i \in 1..Len(Calls) : Calls[i].answer = "deny"

\* the last invocation was the Prompt Gate of either script
IsPromptGate == result.gate \in {PromptGate, "validate_financial_query"}

\* C11: for a subject that has not opted in to AI advice and an
\* advice-seeking query, the Prompt Gate returns permitted = false together
\* with a non-empty warnings list that has a warning mentioning opt-in.
C11_OptOutWarned ==
    (IsPromptGate /\ Returned /\ AllDenied /\ AdviceSeeking(result.args)) =>
        /\ result.out.value.permitted = FALSE
        /\ result.out.value.warnings # <<>>
        /\ \E i \in 1..Len(result.out.value.warnings) :
              MentionsOptIn(result.out.value.warnings[i])


\* the last step applied get_required_certification
CertificationApplied == result.gate = "get_required_certification"

\* no expert keyword and no professional keyword occurs in the question
NoCertificationKeyword(query) ==
    /\ ~AnyIn(expert_keywords, lower(query.question))
    /\ ~AnyIn(professional_keywords, lower(query.question))

\* C12: for a query whose question matches no expert and no professional
\* keyword, get_required_certification is decided by portfolio_value alone:
\* "expert" from 1,000,000 up, "professional" from 100,000 up to but not
\* including 1,000,000, "general" when the value is absent or below 100,000.
C12_ValueDecides ==
    (CertificationApplied /\ NoCertificationKeyword(result.args)) =>
        LET value == result.args.portfolio_value
        IN  result.out.value =
                IF value # None /\ value[1] >= 1000000 THEN "expert"
                ELSE IF value # None /\ value[1] >= 100000 THEN "professional"
                ELSE "general"

\* C12 witness: a question without keywords and a portfolio of exactly
\* 1,000,000 was classified expert
C12_Witness ==
    /\ CertificationApplied
    /\ NoCertificationKeyword(result.args)
    /\ result.args.portfolio_value = Some(1000000)
    /\ result.out.value = "expert"


\* how often x occurs in seq
Count(x, seq) == Cardinality({i \in 1..Len(seq) : seq[i] = x})

\* the last invocation was the Response Gate, it was given a response with
\* empty risk_warnings, it returned, and the response object is as it left it
ProcessedFromEmpty == ProcessedOnce /\ result.args.risk_warnings = <<>>

\* the instrument groups whose keyword occurs in the text, with their warnings
GroupWarnings(text) ==
    {w \in {StockWarning, BondWarning, InternationalWarning, SmallCapWarning,
            HighYieldWarning} :
        \/ w = StockWarning /\ (Contains(kw_stock, text) \/ Contains(kw_equity, text))
        \/ w = BondWarning /\ (Contains(kw_bond, text) \/ Contains(kw_fixed_income, text))
        \/ w = InternationalWarning
              /\ (Contains(kw_international, text) \/ Contains(kw_foreign, text))
        \/ w = SmallCapWarning /\ Contains(kw_small \o <<" ">> \o kw_cap, text)
        \/ w = HighYieldWarning /\ Contains(kw_high \o <<" ">> \o kw_yield, text)}

\* C13: one invocation of validate_financial_response on a response with
\* empty risk_warnings leaves in risk_warnings, exactly once each, the warning
\* of every instrument group whose keyword occurs in the answer, and exactly
\* one diversification warning if and only if a group warning was added.
C13_GroupWarningsOnce ==
    ProcessedFromEmpty =>
        LET groups == GroupWarnings(lower(draft.answer))
        IN  /\ \A w \in groups : Count(w, draft.risk_warnings) = 1
            /\ Count(DiversificationWarning, draft.risk_warnings) =
                   (IF \E i \in 1..Len(draft.risk_warnings) :
                          draft.risk_warnings[i] # DiversificationWarning
                    THEN 1 ELSE 0)
            /\ NoDuplicates(draft.risk_warnings)


\* C14: the Response Gate adds compliance text only when its PDP check
\* passes: an invocation whose compliance check is denied (it returns
\* permitted = false) leaves the response's answer, compliance_notes and
\* risk_warnings as they were before the invocation.
C14_DeniedLeavesResponse ==
    [][ (ValidateHeldResponse
            /\ result'.out.kind = "return"
            /\ result'.out.value.permitted = FALSE) =>
            /\ draft'.answer = draft.answer
            /\ draft'.compliance_notes = draft.compliance_notes
            /\ draft'.risk_warnings = draft.risk_warnings ]_vars


\* the categories the Retrieval Gate of src/project/main.py must return for
\* the answers its two tier checks got
TierCatalogue ==
    << "general_education", "basic_principles" >>
        \o (IF Answered(ProfessionalDocsKey, "allow")
            THEN << "professional_guidelines", "regulatory_frameworks",
                    "investment_strategies" >>
            ELSE <<>>)
        \o (IF Answered(ExpertDocsKey, "allow")
            THEN << "advanced_analysis", "specialized_strategies",
                    "institutional_research" >>
            ELSE <<>>)

\* the last invocation issued the professional and then the expert check
BothTierChecksIssued ==
    /\ Len(Calls) = 2
    /\ Calls[1].key = ProfessionalDocsKey
    /\ Calls[2].key = ExpertDocsKey

\* C15 as stated: access_financial_knowledge of src/project/main.py always
\* issues both tier checks and always returns the two base categories, then
\* the professional categories iff access_professional_docs is allowed, then
\* the expert categories iff access_expert_docs is allowed, none twice.
C15_TiersAlwaysBothChecks ==
    result.gate = RetrievalGate =>
        /\ BothTierChecksIssued
        /\ Returned
        /\ result.out.value = TierCatalogue
        /\ NoDuplicates(result.out.value)

\* C15 amended: whenever the gate returns it has issued both tier checks, and
\* the list is the base categories, then the professional categories iff
\* access_professional_docs was allowed, then the expert categories iff
\* access_expert_docs was allowed, none twice; it does not return only when a
\* check failed with a PDP error, and a failed professional check leaves the
\* expert check unissued.
C15_TiersIndependent ==
    result.gate = RetrievalGate =>
        /\ Returned =>
              /\ BothTierChecksIssued
              /\ result.out.value = TierCatalogue
              /\ NoDuplicates(result.out.value)
        /\ ~Returned =>
              /\ Calls[Len(Calls)].answer = "error"
              /\ Calls[1].key = ProfessionalDocsKey
              /\ Len(Calls) = 2 => Calls[1].answer # "error" /\ Calls[2].key = ExpertDocsKey

\* C15 witness: the professional check was denied and the expert check
\* allowed, and the gate returned the base and the expert categories
C15_Witness ==
    /\ result.gate = RetrievalGate
    /\ Returned
    /\ Answered(ProfessionalDocsKey, "deny")
    /\ Answered(ExpertDocsKey, "allow")
    /\ Len(result.out.value) = 5
    /\ result.out.value[3] = "advanced_analysis"


\* the larger of two numbers
Max(a, b) == IF a >= b THEN a ELSE b

\* the disclaimers the claim requires for a certification level: the two base
\* disclaimers plus the level's own; base only for an unknown level
RequiredFor(level) ==
    {"Past performance is not indicative of future results",
     "Financial advice may not be suitable for everyone"}
    \cup (CASE level = "general" ->
                {"This is general information only",
                 "Consult a professional for specific advice"}
            [] level = "professional" ->
                {"Advice is based on provided information",
                 "Additional consultation may be required",
                 "Services provided under professional certification"}
            [] level = "expert" ->
                {"Complex financial products carry significant risks",
                 "Services provided under expert certification",
                 "Regular review and updates recommended"}
            [] OTHER -> {})

\* what one invocation must have done to compliance_notes: every required
\* disclaimer is present, the earlier notes are kept in their order, and no
\* required disclaimer occurs more often than before or once
NotesCompleted ==
    /\ \A d \in RequiredFor(draft.certification_level) :
          InList(d, draft'.compliance_notes)
    /\ IsSubsequence(draft.compliance_notes, draft'.compliance_notes)
    /\ \A d \in RequiredFor(draft.certification_level) :
          Count(d, draft'.compliance_notes) <= Max(Count(d, draft.compliance_notes), 1)
    /\ draft'.certification_level = draft.certification_level

\* C16 as stated: after any number of invocations of
\* validate_financial_response on a response, compliance_notes contains every
\* disclaimer required for its certification_level, the earlier notes are
\* still there in their original order, and no required disclaimer occurs more
\* often than it did before the first invocation or once.  Stated per
\* invocation, which gives the statement for any number of them.
C16_NotesCompleteAfterAny ==
    [][ ValidateHeldResponse => NotesCompleted ]_vars

\* C16 amended: every invocation that returns completes the notes in this
\* way, and an invocation that fails with a PDP error leaves the response as
\* it was; so the statement holds after any number of invocations of which
\* at least one returned.
C16_NotesCompleteAfterReturn ==
    [][ ValidateHeldResponse =>
            /\ result'.out.kind = "return" => NotesCompleted
            /\ result'.out.kind = "raise" => draft' = draft ]_vars

\* C16 witness: a response that already held one base disclaimer was
\* processed at expert level: the note is still first, and the other four
\* required disclaimers follow it, each once
C16_Witness ==
    /\ ProcessedOnce
    /\ result.args.certification_level = "expert"
    /\ result.args.compliance_notes = <<"Financial advice may not be suitable for everyone">>
    /\ Len(draft.compliance_notes) = 5
    /\ draft.compliance_notes[1] = "Financial advice may not be suitable for everyone"
    /\ draft.compliance_notes[2] = "Past performance is not indicative of future results"


\* the check the claim maps to each action name
MappedCheck(action) ==
    CASE action = "basic_advice" -> ActionKey("provide", "basic_advice")
      [] action = "portfolio_analysis" -> ActionKey("analyze", "portfolio_analysis")
      [] action = "specific_recommendations" ->
            ActionKey("recommend", "specific_recommendations")

\* C17: check_action_permissions(action) returns true if and only if action
\* is one of basic_advice, portfolio_analysis, specific_recommendations and
\* the PDP allowed the check mapped to that action; for every other action
\* it returns false, and an allow for a different action never makes the
\* result true.
C17_ActionDecision ==
    result.gate = ActionGate =>
        LET known == result.args \in {"basic_advice", "portfolio_analysis",
                                      "specific_recommendations"}
        IN  /\ (Returned /\ result.out.value = TRUE)
                  <=> (known /\ Answered(MappedCheck(result.args), "allow"))
            /\ ~known => Returned /\ result.out.value = FALSE


\* general < professional < expert
CertificationRank(level) ==
    CASE level = "general" -> 0
      [] level = "professional" -> 1
      [] level = "expert" -> 2

\* C18: for every query with portfolio_value >= 1,000,000, whatever its
\* question, get_required_certification returns "expert"; the level never
\* decreases when portfolio_value increases with the question held fixed,
\* and is never below "professional" when portfolio_value >= 100,000.
C18_ValueRaisesLevel ==
    CertificationApplied =>
        LET query == result.args
            value == query.portfolio_value
            level == result.out.value
        IN  /\ (value # None /\ value[1] >= 1000000) => level = "expert"
            /\ (value # None /\ value[1] >= 100000) => CertificationRank(level) >= 1
            /\ \A more \in CertificationValues :
                  (value # None /\ more # None /\ more[1] >= value[1]) =>
                      CertificationRank(get_required_certification(
                          [query EXCEPT !.portfolio_value = more]))
                        >= CertificationRank(level)


\* C19: in src/main.py the sub-check warning is emitted only when the
\* sub-check was issued and denied: validate_financial_query returns an empty
\* warnings list whenever portfolio_value is None, and
\* validate_financial_advice returns one whenever used_premium_features is
\* false.
C19_WarningOnlyWhenDenied ==
    /\ (result.gate = "validate_financial_query" /\ Returned) =>
          /\ result.out.value.warnings # <<>> => Answered(AnalyzePortfolioKey, "deny")
          /\ result.args.portfolio_value = None => result.out.value.warnings = <<>>
    /\ (result.gate = "validate_financial_advice" /\ Returned) =>
          /\ result.out.value.warnings # <<>> => Answered(AccessPremiumKey, "deny")
          /\ ~result.args.used_premium_features => result.out.value.warnings = <<>>


\* the catalog `resources` defines `action` for the resource type `type`
Defines(resources, type, action) ==
    \E i \in 1..Len(resources) :
        resources[i].key = type /\ InList(action, resources[i].actions)

\* every permission of every role names a resource and actions of `resources`
RolesDefined(roles, resources) ==
    \A r \in 1..Len(roles) : \A p \in 1..Len(roles[r].permissions) :
        \A a \in 1..Len(roles[r].permissions[p].actions) :
            Defines(resources, roles[r].permissions[p].resource,
                    roles[r].permissions[p].actions[a])

\* C20: every PDP check issued by a gate of src/main.py names a resource type
\* and an action that the catalog of src/config.py defines for that resource
\* type, and every role permission of src/config.py and src/project/config.py
\* refers to a resource and action of the same file's resource list.
C20_ChecksInCatalog ==
    /\ program = "main" =>
          \A i \in 1..Len(Calls) :
              Defines(config_resources, Calls[i].key.resource.type, Calls[i].key.action)
    /\ RolesDefined(config_roles, config_resources)
    /\ RolesDefined(project_config_roles, project_config_resources)


\* the place of a provisioning call in the order resources, user attributes,
\* roles, user sets, resource sets, condition-set rules, users
ProvisioningPhase(call) ==
    CASE call.api = "resources.create" -> 1
      [] call.api = "resource_attributes.create" -> 2
      [] call.api = "roles.create" -> 3
      [] call.api = "condition_sets.create" ->
            IF call.item \in {"opted_in_users", "high_clearance_users"} THEN 4 ELSE 5
      [] call.api = "condition_set_rules.create" -> 6
      [] call.api \in {"users.sync", "users.assign_role"} -> 7

\* the calls issued so far are the first calls of `plan`, in its order
IssuedInOrder(plan) ==
    /\ Len(provisioning.calls) <= Len(plan)
    /\ \A i \in 1..Len(provisioning.calls) : provisioning.calls[i].call = plan[i]

\* the failed calls among those issued so far, in order
FailedCalls ==
    LET failed == SelectSeq(provisioning.calls, LAMBDA c : ~c.ok)
    IN  [i \in 1..Len(failed) |-> failed[i].call]

\* C21: create_permit_config of src/project/config.py issues its calls in the
\* order resources, user attributes, roles, user sets, resource sets,
\* condition-set rules, users (sync, then role assignment); once a call has
\* failed no later call is issued and the failure is re-raised to the caller,
\* so "Configuration completed successfully" is reached only when every call
\* succeeded.  In src/config.py a failed resource or role creation is
\* reported and the remaining resources and roles are still attempted.
C21_ProvisioningOrder ==
    /\ (program = "project" /\ provisioning.status # "idle") =>
          LET calls == provisioning.calls
          IN  /\ IssuedInOrder(project_create_permit_config_calls)
              /\ \A i, j \in 1..Len(calls) :
                    i < j => ProvisioningPhase(calls[i].call)
                                <= ProvisioningPhase(calls[j].call)
              /\ \A i \in 1..Len(calls) :
                    calls[i].call.api = "users.assign_role" =>
                        /\ i > 1
                        /\ calls[i - 1].call = ApiCall("users.sync", calls[i].call.item.user)
              /\ \A i \in 1..Len(calls) : ~calls[i].ok => i = Len(calls)
              /\ (\E i \in 1..Len(calls) : ~calls[i].ok) <=> provisioning.status = "raised"
              /\ provisioning.completed =>
                    /\ provisioning.status = "returned"
                    /\ Len(calls) = 18
                    /\ \A i \in 1..Len(calls) : calls[i].ok
              /\ provisioning.status = "returned" => provisioning.completed
    /\ (program = "main" /\ provisioning.status # "idle") =>
          /\ IssuedInOrder(create_permit_config_calls)
          /\ provisioning.status # "raised"
          /\ provisioning.reported = FailedCalls
          /\ provisioning.status = "returned" <=> Len(provisioning.calls) = 6

\* C21 witness: in src/project/config.py the creation of the second role
\* failed after seven successful calls; the run ended there with the error
\* raised and without the completion message
C21_Witness ==
    /\ program = "project"
    /\ provisioning.status = "raised"
    /\ Len(provisioning.calls) = 8
    /\ provisioning.calls[8].call = ApiCall("roles.create", "premium_user")
    /\ ~provisioning.calls[8].ok
    /\ ~provisioning.completed

====
